---- MODULE Spec2Model ----
(***************************************************************************)
(* Model of the weather / identity MCP server of src/src/server.ts: the   *)
(* three tool handlers registered by createServer, makeNWSRequest,        *)
(* formatAlert, and the express routes on /mcp.                           *)
(*                                                                         *)
(* Two state machines share this module.                                   *)
(*   ToolSpec  one tool call, stepped through its outbound calls.          *)
(*   Spec      the HTTP dispatcher with interleaved requests.              *)
(* LiveSpec is Spec with the fairness of the Node event loop.              *)
(*                                                                         *)
(* Data conventions.  A JavaScript object is a record; an absent property  *)
(* is a field missing from the record's DOMAIN.  A template string is the  *)
(* sequence of its parts: S(s) for literal or string-valued parts, N(n)    *)
(* for a number rendered by the default conversion, F4(n) for a number     *)
(* rendered by toFixed(4), Cs(c) for a string given by its characters.     *)
(* Coordinates are integers in units of 1e-5 degree.  JSON.stringify(v) is *)
(* the one-part text <<[json |-> v, indent |-> k]>>.                       *)
(***************************************************************************)
EXTENDS Integers, Sequences, FiniteSets, TLC

VARIABLES
    \* ---- one tool call (ToolSpec) ----
    call,       \* the inbound call: tool, arguments, request headers
    hpc,        \* position of the handler
    hlog,       \* outbound calls issued so far, in order, with their results
    hloc,       \* the handler's local variables
    hret,       \* what the handler produced: an envelope or an exception
    logged,     \* what was written with console.error
    \* ---- the dispatcher (Spec) ----
    method,          \* HTTP verb of each request
    rpcId,           \* JSON-RPC id carried in each POST body
    pc,              \* position of each request
    transportOf,     \* transport instance constructed for the request (0: none)
    registryOf,      \* McpServer instance connected for the request (0: none)
    nextTransport,   \* next fresh transport identity
    serverTransport, \* _transport of the module-level McpServer (0: undefined)
    transportClosed, \* transports on which close() ran
    closeListener,   \* requests whose res has the 'close' listener registered
    closeEmitted,    \* requests whose res emitted 'close', listener not run yet
    connOpen,        \* whether the client connection is still open
    response,        \* what was written to each request's res
    handlerRuns,     \* number of tool-handler executions started per request
    exited           \* whether the process has exited

toolVars == <<call, hpc, hlog, hloc, hret, logged>>
dispVars == <<method, rpcId, pc, transportOf, registryOf, nextTransport,
              serverTransport, transportClosed, closeListener, closeEmitted,
              connOpen, response, handlerRuns, exited>>
vars == <<toolVars, dispVars>>

(***************************************************************************)
(* Bounds of the model.                                                    *)
(***************************************************************************)
MaxReqs == 2
MaxFeatures == 2

(***************************************************************************)
(* JavaScript helpers.                                                     *)
(***************************************************************************)
Has(o, f) == f \in DOMAIN o

S(s) == [s |-> s]
N(n) == [n |-> n]
F4(n) == [fixed4 |-> n]
Cs(c) == [chars |-> c]

\* x || d for a string-valued optional property
OrStr(o, f, d) == IF Has(o, f) /\ o[f] # "" THEN o[f] ELSE d

RECURSIVE TimesPow2Mod(_, _, _)
\* (r * 2^k) mod m for r < m <= 200000, thirteen doublings at a time
TimesPow2Mod(r, k, m) ==
    IF k <= 13 THEN (r * 2^k) % m
    ELSE TimesPow2Mod((r * 8192) % m, k - 13, m)

\* the binary exponent of a / 100000 for a > 0: the j with
\* 2^j <= a / 100000 < 2^(j+1)
binaryExponent(a) ==
    IF a >= 100000
    THEN CHOOSE j \in 0..14 : a \div 2^j >= 100000 /\ a \div 2^(j + 1) < 100000
    ELSE -(CHOOSE s \in 1..17 : a * 2^s >= 100000 /\ a * 2^(s - 1) < 100000)

\* A coordinate of a units of 1e-5 degree is the double nearest to
\* a / 100000 (53-bit significand, ties to even).  doubleError is the sign
\* of that double minus a / 100000.
doubleError(a) ==
    LET k == 52 - binaryExponent(a)
        rem == TimesPow2Mod(a % 200000, k, 200000)
    IN IF rem % 100000 = 0 THEN 0
       ELSE IF rem % 100000 < 50000 \/ rem = 50000 THEN -1
       ELSE 1

\* Number.prototype.toFixed(4) on a coordinate of x units of 1e-5 degree:
\* the sign, and the magnitude in units of 1e-4 degree.  The magnitude of
\* the double is rounded to the nearest multiple of 1e-4, the larger one
\* when both are equally near; a last digit of 5 therefore goes down when
\* the double lies below the decimal.  A negative x keeps its sign even
\* when the magnitude rounds to zero ("-0.0000").
toFixed4(x) ==
    LET mag == IF x < 0 THEN -x ELSE x
        last == mag % 10
        up == IF last > 5 THEN 1
              ELSE IF last < 5 THEN 0
              ELSE IF doubleError(mag) < 0 THEN 0 ELSE 1
    IN [neg |-> x < 0, units |-> mag \div 10 + up]

LowerLetters ==
    <<"a", "b", "c", "d", "e", "f", "g", "h", "i", "j", "k", "l", "m",
      "n", "o", "p", "q", "r", "s", "t", "u", "v", "w", "x", "y", "z">>
UpperLetters ==
    <<"A", "B", "C", "D", "E", "F", "G", "H", "I", "J", "K", "L", "M",
      "N", "O", "P", "Q", "R", "S", "T", "U", "V", "W", "X", "Y", "Z">>

\* the upper-case form of one character, as a string of characters: a
\* letter a-z gives its capital, the sharp s gives "SS", every other
\* character of the model's alphabet (capitals, digits, punctuation)
\* gives itself
UpperChar(c) ==
    IF c = "ß" THEN <<"S", "S">>
    ELSE IF \E i \in DOMAIN LowerLetters : LowerLetters[i] = c
    THEN <<UpperLetters[CHOOSE i \in DOMAIN LowerLetters : LowerLetters[i] = c]>>
    ELSE <<c>>

RECURSIVE Concat(_)
\* the strings of xs one after the other
Concat(xs) == IF xs = <<>> THEN <<>> ELSE Head(xs) \o Concat(Tail(xs))

\* a handler that uses the state argument as it was typed
toUpperCaseIdentity(str) == str

\* String.prototype.toUpperCase on a string given as its characters
toUpperCase(str) == Concat([i \in DOMAIN str |-> UpperChar(str[i])])

RECURSIVE Join(_, _)
\* Array.prototype.join: the texts of xs with sep between them
Join(xs, sep) ==
    IF xs = <<>> THEN <<>>
    ELSE IF Len(xs) = 1 THEN Head(xs)
    ELSE Head(xs) \o <<S(sep)>> \o Join(Tail(xs), sep)

JSONstringify(v, k) == <<[json |-> v, indent |-> k]>>

NWS_API_BASE == "https://api.weather.gov"
USER_AGENT == "weather-app/1.0"

(***************************************************************************)
(* Shapes shared by the handlers.                                          *)
(***************************************************************************)
Null == [null |-> TRUE]
IsNull(v) == Has(v, "null")

\* a result whose text block does not depend on the structured form
EnvelopeFixedText(text, output) ==
    [kind |-> "envelope",
     content |-> <<[type |-> "text", text |-> <<S("done")>>]>>,
     structuredContent |-> output]

\* The value a tool callback returns.
Envelope(text, output) ==
    [kind |-> "envelope",
     content |-> <<[type |-> "text", text |-> text]>>,
     structuredContent |-> output]

\* A callback that ended by throwing instead of returning.
Thrown(err) == [kind |-> "exception", error |-> err]

NoResult == [kind |-> "none"]

(***************************************************************************)
(* makeNWSRequest.  A raw response is [kind |-> "neterr"] when fetch       *)
(* rejects, otherwise [kind |-> "http", ok, decodes, value]: ok is         *)
(* response.ok, decodes says whether response.json() resolves, value is    *)
(* the decoded payload.                                                    *)
(***************************************************************************)
\* the error caught (and logged) inside makeNWSRequest, "none" when none
makeNWSRequestError(resp) ==
    IF resp.kind = "neterr" THEN "fetch failed"
    ELSE IF ~resp.ok THEN "HTTP error! status"
    ELSE IF ~resp.decodes THEN "json decode failed"
    ELSE "none"

\* a helper that decodes the body whatever the HTTP status
makeNWSRequestIgnoringStatus(resp) ==
    IF resp.kind = "neterr" \/ ~resp.decodes THEN Null ELSE resp.value

makeNWSRequest(resp) ==
    IF makeNWSRequestError(resp) # "none" THEN Null ELSE resp.value

(***************************************************************************)
(* formatAlert: reads feature.properties and then five of its fields.      *)
(* Reading a field of an undefined properties object throws a TypeError.   *)
(***************************************************************************)
formatAlertThrows(feature) == ~Has(feature, "properties")

formatAlert(feature) ==
    LET props == feature.properties IN
    Join(<< <<S("Event: "), S(OrStr(props, "event", "Unknown"))>>,
            <<S("Area: "), S(OrStr(props, "areaDesc", "Unknown"))>>,
            <<S("Severity: "), S(OrStr(props, "severity", "Unknown"))>>,
            <<S("Status: "), S(OrStr(props, "status", "Unknown"))>>,
            <<S("Headline: "), S(OrStr(props, "headline", "No headline"))>>,
            <<S("---")>> >>, "\n")

(***************************************************************************)
(* get-alerts, the part after the fetch resolved with alertsData.          *)
(***************************************************************************)
alertsUrl(state) == <<S(NWS_API_BASE), S("/alerts?area="), Cs(toUpperCase(state))>>

getAlertsAfterFetch(state, alertsData) ==
    LET stateCode == toUpperCase(state) IN
    IF IsNull(alertsData)
    THEN LET output == [alerts |-> <<S("Failed to retrieve alerts data")>>]
         IN Envelope(JSONstringify(output, 0), output)
    ELSE
      LET features == IF Has(alertsData, "features") THEN alertsData.features
                      ELSE <<>>
      IN
      IF Len(features) = 0
      THEN LET output == [alerts |-> <<S("No active alerts for "), Cs(stateCode)>>]
           IN Envelope(JSONstringify(output, 0), output)
      ELSE IF \E i \in DOMAIN features : formatAlertThrows(features[i])
      THEN Thrown("TypeError")
      ELSE
        LET formattedAlerts == [i \in DOMAIN features |-> formatAlert(features[i])]
            alertsText == <<S("Active alerts for "), Cs(stateCode), S(":\n\n")>>
                          \o Join(formattedAlerts, "\n")
            output == [alerts |-> alertsText]
        IN Envelope(alertsText, output)

(***************************************************************************)
(* get-forecast.                                                           *)
(***************************************************************************)
pointsUrl(latitude, longitude) ==
    <<S(NWS_API_BASE), S("/points/"), F4(toFixed4(latitude)), S(","),
      F4(toFixed4(longitude))>>

\* pointsData.properties?.forecast ; "" stands for undefined
forecastUrlOf(pointsData) ==
    IF Has(pointsData, "properties") /\ Has(pointsData.properties, "forecast")
    THEN pointsData.properties.forecast ELSE ""

gridPointFailure(latitude, longitude) ==
    LET output == [forecast |->
          <<S("Failed to retrieve grid point data for coordinates: "),
            N(latitude), S(", "), N(longitude),
            S(". This location may not be supported by the NWS API (only US locations are supported).")>>]
    IN Envelope(JSONstringify(output, 0), output)

forecastUrlFailure ==
    LET output == [forecast |-> <<S("Failed to get forecast URL from grid point data")>>]
    IN Envelope(JSONstringify(output, 0), output)

\* a forecast fetch failure reported with the no-data message
forecastDataFailureAsNoData ==
    LET output == [forecast |-> <<S("No forecast periods available")>>]
    IN Envelope(JSONstringify(output, 0), output)

forecastDataFailure ==
    LET output == [forecast |-> <<S("Failed to retrieve forecast data")>>]
    IN Envelope(JSONstringify(output, 0), output)

noPeriods ==
    LET output == [forecast |-> <<S("No forecast periods available")>>]
    IN Envelope(JSONstringify(output, 0), output)

\* period.temperature || "Unknown": a number, falsy when absent or 0
temperatureOf(period) ==
    IF Has(period, "temperature") /\ period.temperature # 0
    THEN N(period.temperature) ELSE S("Unknown")

formatPeriod(period) ==
    Join(<< <<S(OrStr(period, "name", "Unknown")), S(":")>>,
            <<S("Temperature: "), temperatureOf(period), S("Â°"),
              S(OrStr(period, "temperatureUnit", "F"))>>,
            <<S("Wind: "), S(OrStr(period, "windSpeed", "Unknown")), S(" "),
              S(OrStr(period, "windDirection", ""))>>,
            <<S(OrStr(period, "shortForecast", "No forecast available"))>>,
            <<S("---")>> >>, "\n")

\* the part of get-forecast after the second fetch resolved
getForecastAfterForecast(latitude, longitude, forecastData) ==
    IF IsNull(forecastData) THEN forecastDataFailure
    ELSE
      LET periods == IF Has(forecastData, "properties")
                        /\ Has(forecastData.properties, "periods")
                     THEN forecastData.properties.periods ELSE <<>>
      IN
      IF Len(periods) = 0 THEN noPeriods
      ELSE
        LET formattedForecast == [i \in DOMAIN periods |-> formatPeriod(periods[i])]
            forecastText == <<S("Forecast for "), N(latitude), S(", "),
                              N(longitude), S(":\n\n")>>
                            \o Join(formattedForecast, "\n")
            output == [forecast |-> forecastText]
        IN Envelope(forecastText, output)

(***************************************************************************)
(* get_current_user.  A header value is the sequence of its space-         *)
(* separated words, so "Bearer abc" is <<"Bearer", "abc">>.  "" stands     *)
(* for undefined.                                                          *)
(***************************************************************************)
MASKED == "[MASKED]"

GRAPH_SCOPE == "https://graph.microsoft.com/.default"
GRAPH_ME == "https://graph.microsoft.com/v1.0/me"
DEFAULT_AUDIENCE == "api://AzureADTokenExchange"

\* extra?.requestInfo?.headers is undefined
headersMissing(c) == ~Has(c, "headers")

noHeadersResult ==
    LET output == [authenticated |-> FALSE,
                   message |-> <<S("No authentication headers found")>>]
    IN Envelope(JSONstringify(output, 2), output)

\* (headers['authorization'] as string).split(' ') throws on undefined
authTokenThrows(headers) == ~Has(headers, "authorization")

\* .split(' ')[1]
authTokenOf(headers) ==
    IF Len(headers.authorization) >= 2 THEN headers.authorization[2] ELSE ""

\* process.env.TokenExchangeAudience ?? "api://AzureADTokenExchange", "/.default"
publicTokenExchangeScope(env) ==
    <<S(IF Has(env, "TokenExchangeAudience") THEN env.TokenExchangeAudience
        ELSE DEFAULT_AUDIENCE), S("/.default")>>

\* a masking that forgets the phone numbers
maskUserDataIdOnly(graphData) ==
    [f \in DOMAIN graphData |->
        IF f = "id" /\ graphData.id # "" THEN MASKED ELSE graphData[f]]

\* the masking of lines 190-196
maskUserData(graphData) ==
    [f \in DOMAIN graphData |->
        IF f = "businessPhones"
        THEN [i \in DOMAIN graphData.businessPhones |-> MASKED]
        ELSE IF f = "id" /\ graphData.id # "" THEN MASKED
        ELSE graphData[f]]

userResult(graphData) ==
    LET output == [authenticated |-> TRUE,
                   user |-> maskUserData(graphData),
                   message |-> <<S("Successfully retrieved user information from Microsoft Graph")>>]
    IN Envelope(JSONstringify(output, 2), output)

consentLink(env) ==
    <<S("https://"), S(env.WEBSITE_HOSTNAME),
      S("/.auth/login/aad?post_login_redirect_uri=https://"),
      S(env.WEBSITE_HOSTNAME), S("/authcomplete")>>

\* a catch block that puts the caught error into the message
catchResultWithError(error, env) ==
    LET errorOutput == [authenticated |-> FALSE,
          message |-> <<S("Error during token exchange and Graph API call: "),
                        S(error), S(" ")>> \o consentLink(env)]
    IN Envelope(JSONstringify(errorOutput, 2), errorOutput)

\* the catch block of lines 204-214; the error is logged, not returned
catchResult(error, env) ==
    LET errorOutput == [authenticated |-> FALSE,
          message |-> <<S("Error during token exchange and Graph API call. You're logged in but might need to grant consent to the application. Open a browser to the following link to consent: ")>>
                      \o consentLink(env)]
    IN Envelope(JSONstringify(errorOutput, 2), errorOutput)

(***************************************************************************)
(* Inputs of one tool call and the answers of the outside world.           *)
(***************************************************************************)
RECURSIVE SeqsUpTo(_, _)
\* all sequences over pool of length 0..n
SeqsUpTo(pool, n) ==
    IF n = 0 THEN {<<>>}
    ELSE LET shorter == SeqsUpTo(pool, n - 1)
         IN shorter \cup {Append(s, x) : s \in {q \in shorter : Len(q) = n - 1},
                                         x \in pool}

States == {<<"c", "a">>, <<"N", "Y">>, <<"ß", "x">>}
\* 38.89772, 51.5074, 12.34565 (a last digit of 5), (on the limit) 90.0 and
\* (out of range) 91.0 and -90.00001 degrees
Latitudes == {3889772, 5150740, 1234565, 9000000, 9100000, -9000001}
\* -77.0365, -0.1278, -0.00004 and (out of range) -180.00001 and 180.00001
\* degrees
Longitudes == {-7703650, -12780, -4, -18000001, 18000001}

Envs == {[WEBSITE_HOSTNAME |-> "app-a.azurewebsites.net"],
         [WEBSITE_HOSTNAME |-> "app-b.azurewebsites.net",
          TokenExchangeAudience |-> "api://AzureADTokenExchangeUSGov"]}

UserToken == "user-token"
HeaderSets == {[accept |-> "application/json"],
               [accept |-> "application/json",
                authorization |-> <<"Bearer", UserToken>>],
               [accept |-> "application/json", authorization |-> <<UserToken>>]}

Calls ==
    {[tool |-> "get-alerts", state |-> s] : s \in States}
    \cup {[tool |-> "get-forecast", latitude |-> la, longitude |-> lo] :
             la \in Latitudes, lo \in Longitudes}
    \cup {[tool |-> "get_current_user", env |-> e] : e \in Envs}
    \cup {[tool |-> "get_current_user", env |-> e, headers |-> h] :
             e \in Envs, h \in HeaderSets}

\* a schema that bounds the latitude only
inputValidLatitudeOnly(c) ==
    CASE c.tool = "get-alerts" -> Len(c.state) = 2
      [] c.tool = "get-forecast" -> c.latitude >= -9000000 /\ c.latitude <= 9000000
      [] OTHER -> TRUE

\* the zod input schemas of lines 20-22 and 65-72
inputValid(c) ==
    CASE c.tool = "get-alerts" -> Len(c.state) = 2
      [] c.tool = "get-forecast" ->
            /\ c.latitude >= -9000000 /\ c.latitude <= 9000000
            /\ c.longitude >= -18000000 /\ c.longitude <= 18000000
      [] OTHER -> TRUE

HttpResponses(payloads) ==
    {[kind |-> "neterr"]}
    \cup {[kind |-> "http", ok |-> FALSE, decodes |-> TRUE, value |-> v] :
             v \in payloads}
    \cup {[kind |-> "http", ok |-> TRUE, decodes |-> FALSE, value |-> Null]}
    \cup {[kind |-> "http", ok |-> TRUE, decodes |-> TRUE, value |-> v] :
             v \in payloads}

FeaturePool ==
    {[type |-> "Feature",
      properties |-> [event |-> "Flood Warning", areaDesc |-> "Kern County",
                      severity |-> "Severe", status |-> "Actual",
                      headline |-> "Flood Warning issued"]],
     [type |-> "Feature", properties |-> [event |-> "Heat Advisory", status |-> ""]],
     [type |-> "Feature"]}

AlertPayloads ==
    {[features |-> fs] : fs \in SeqsUpTo(FeaturePool, MaxFeatures)}
    \cup {[title |-> "no features"]}

ForecastUrl == "https://api.weather.gov/gridpoints/LWX/97,71/forecast"
PointPayloads ==
    {[properties |-> [forecast |-> ForecastUrl]],
     [properties |-> [gridId |-> "LWX"]],
     [type |-> "Feature"]}

PeriodPool ==
    {[name |-> "Tonight", temperature |-> 72, temperatureUnit |-> "F",
      windSpeed |-> "5 mph", windDirection |-> "NW", shortForecast |-> "Clear"],
     [name |-> "Monday", temperature |-> 0, temperatureUnit |-> "C"],
     [number |-> 3]}

ForecastPayloads ==
    {[properties |-> [periods |-> ps]] : ps \in SeqsUpTo(PeriodPool, MaxFeatures)}
    \cup {[properties |-> [units |-> "us"]], [type |-> "Feature"]}

MITokens == {"mi-token-1", "mi-token-2"}
OBOTokens == {"obo-token-1", "obo-token-2"}

Profiles ==
    {[id |-> "8a7c-raw-id", displayName |-> "Ada", businessPhones |-> ph,
      mobilePhone |-> "+1 555 0100"] :
         ph \in SeqsUpTo({"+1 425 555 0109", "+1 425 555 0110"}, MaxFeatures)}
    \cup {[displayName |-> "Guest"]}

GraphErrors == {[error |-> "InvalidAuthenticationToken"]}

GraphResponses ==
    {[kind |-> "neterr"],
     [kind |-> "http", ok |-> TRUE, decodes |-> FALSE, value |-> Null]}
    \cup {[kind |-> "http", ok |-> TRUE, decodes |-> TRUE, value |-> v] :
             v \in Profiles}
    \cup {[kind |-> "http", ok |-> FALSE, decodes |-> TRUE, value |-> v] :
             v \in GraphErrors}

(***************************************************************************)
(* One tool call as a state machine (ToolSpec).  Every await on an         *)
(* outbound call is a suspension point: one action issues the call, the    *)
(* next one resumes the handler with the answer.                           *)
(***************************************************************************)
NoLocals ==
    [authToken |-> "", assertion |-> "", oboToken |-> "", graphData |-> Null,
     \* the last raw answer given to makeNWSRequest and what it returned
     resp |-> [kind |-> "none"], data |-> Null]

\* outbound calls, as they are recorded in hlog
fetchCall(url) ==
    [op |-> "fetch", url |-> url,
     headers |-> [UserAgent |-> USER_AGENT, Accept |-> "application/geo+json"],
     result |-> "pending"]

\* managedIdentityCredential.getToken(publicTokenExchangeScope), line 178
assertionCall(env) ==
    [op |-> "managedIdentity.getToken", scope |-> publicTokenExchangeScope(env),
     result |-> "pending"]

\* oboCredential.getToken(graph scope) with the options of lines 174-179
oboCall(authToken, assertion) ==
    [op |-> "onBehalfOf.getToken", userAssertionToken |-> authToken,
     clientAssertion |-> assertion, scope |-> GRAPH_SCOPE, result |-> "pending"]

\* a profile call that forwards the caller's own token
graphCallWithCallerToken(authToken, assertion, oboToken) ==
    [op |-> "graph.fetch", url |-> GRAPH_ME,
     Authorization |-> <<"Bearer", authToken>>, result |-> "pending"]

\* fetch of the profile API, lines 182-186
graphCall(authToken, assertion, oboToken) ==
    [op |-> "graph.fetch", url |-> GRAPH_ME,
     Authorization |-> <<"Bearer", oboToken>>, result |-> "pending"]

Resolved(log, result) == [log EXCEPT ![Len(log)].result = result]

dispInitIdle ==
    /\ method = [r \in 1..MaxReqs |-> "none"]
    /\ rpcId = [r \in 1..MaxReqs |-> 0]
    /\ pc = [r \in 1..MaxReqs |-> "new"]
    /\ transportOf = [r \in 1..MaxReqs |-> 0]
    /\ registryOf = [r \in 1..MaxReqs |-> 0]
    /\ nextTransport = 1
    /\ serverTransport = 0
    /\ transportClosed = {}
    /\ closeListener = {}
    /\ closeEmitted = {}
    /\ connOpen = [r \in 1..MaxReqs |-> TRUE]
    /\ response = [r \in 1..MaxReqs |-> [status |-> 0]]
    /\ handlerRuns = [r \in 1..MaxReqs |-> 0]
    /\ exited = FALSE

ToolInit ==
    /\ call \in Calls
    /\ hpc = "called"
    /\ hlog = <<>>
    /\ hloc = NoLocals
    /\ hret = NoResult
    /\ logged = <<>>
    /\ dispInitIdle

\* McpServer validates the arguments against inputSchema before the callback
ValidateInput ==
    /\ hpc = "called"
    /\ hpc' = IF inputValid(call) THEN "start" ELSE "rejected"
    /\ UNCHANGED <<call, hlog, hloc, hret, logged, dispVars>>

Finish(result) ==
    /\ hret' = result
    /\ hpc' = IF result.kind = "exception" THEN "threw" ELSE "returned"

\* ---- get-alerts, lines 27-57 ----
AlertsStart ==
    /\ hpc = "start" /\ call.tool = "get-alerts"
    /\ hlog' = Append(hlog, fetchCall(alertsUrl(call.state)))
    /\ hpc' = "await_alerts"
    /\ UNCHANGED <<call, hloc, hret, logged, dispVars>>

AlertsResume ==
    /\ hpc = "await_alerts"
    /\ \E resp \in HttpResponses(AlertPayloads) :
          LET alertsData == makeNWSRequest(resp)
              err == makeNWSRequestError(resp)
          IN /\ hlog' = Resolved(hlog, IF IsNull(alertsData) THEN "null" ELSE "data")
             /\ logged' = IF err = "none" THEN logged ELSE Append(logged, err)
             /\ hloc' = [hloc EXCEPT !.resp = resp, !.data = alertsData]
             /\ Finish(getAlertsAfterFetch(call.state, alertsData))
    /\ UNCHANGED <<call, dispVars>>

\* ---- get-forecast, lines 77-136 ----
ForecastStart ==
    /\ hpc = "start" /\ call.tool = "get-forecast"
    /\ hlog' = Append(hlog, fetchCall(pointsUrl(call.latitude, call.longitude)))
    /\ hpc' = "await_points"
    /\ UNCHANGED <<call, hloc, hret, logged, dispVars>>

\* a chain that goes on to the forecast fetch whatever the lookup gave
afterPointsNoShortCircuit(pointsData) == "fetch"

\* what the handler does once pointsData is known: "return" or "fetch"
afterPoints(pointsData) ==
    IF IsNull(pointsData) THEN "return"
    ELSE IF forecastUrlOf(pointsData) = "" THEN "return"
    ELSE "fetch"

PointsResume ==
    /\ hpc = "await_points"
    /\ \E resp \in HttpResponses(PointPayloads) :
          LET pointsData == makeNWSRequest(resp)
              err == makeNWSRequestError(resp)
              done == Resolved(hlog, IF IsNull(pointsData) THEN "null" ELSE "data")
          IN /\ logged' = IF err = "none" THEN logged ELSE Append(logged, err)
             /\ hloc' = [hloc EXCEPT !.resp = resp, !.data = pointsData]
             /\ IF afterPoints(pointsData) = "return"
                THEN /\ hlog' = done
                     /\ Finish(IF IsNull(pointsData)
                               THEN gridPointFailure(call.latitude, call.longitude)
                               ELSE forecastUrlFailure)
                ELSE /\ hlog' = Append(done, fetchCall(<<S(forecastUrlOf(pointsData))>>))
                     /\ hpc' = "await_forecast"
                     /\ hret' = hret
    /\ UNCHANGED <<call, dispVars>>

ForecastResume ==
    /\ hpc = "await_forecast"
    /\ \E resp \in HttpResponses(ForecastPayloads) :
          LET forecastData == makeNWSRequest(resp)
              err == makeNWSRequestError(resp)
          IN /\ hlog' = Resolved(hlog, IF IsNull(forecastData) THEN "null" ELSE "data")
             /\ logged' = IF err = "none" THEN logged ELSE Append(logged, err)
             /\ hloc' = [hloc EXCEPT !.resp = resp, !.data = forecastData]
             /\ Finish(getForecastAfterForecast(call.latitude, call.longitude,
                                                forecastData))
    /\ UNCHANGED <<call, dispVars>>

\* ---- get_current_user, lines 152-215 ----
\* the catch block: log the error, return the remediation result
Catch(error) ==
    /\ logged' = Append(logged, error)
    /\ Finish(catchResult(error, call.env))

\* what the synchronous head of the handler (lines 153-179) ends in
userHead(c) ==
    IF headersMissing(c) THEN "noheaders"
    ELSE IF authTokenThrows(c.headers) THEN "TypeError"
    ELSE IF authTokenOf(c.headers) = "" THEN "CredentialUnavailableError"
    ELSE "exchange"

UserStart ==
    /\ hpc = "start" /\ call.tool = "get_current_user"
    /\ LET head == userHead(call) IN
       CASE head = "noheaders" ->
              /\ Finish(noHeadersResult)
              /\ UNCHANGED <<hlog, hloc, logged>>
         [] head = "exchange" ->
              /\ hloc' = [hloc EXCEPT !.authToken = authTokenOf(call.headers)]
              /\ hlog' = Append(hlog, assertionCall(call.env))
              /\ hpc' = "await_assertion"
              /\ UNCHANGED <<hret, logged>>
         [] OTHER ->
              /\ Catch(head)
              /\ UNCHANGED <<hlog, hloc>>
    /\ UNCHANGED <<call, dispVars>>

AssertionResume ==
    /\ hpc = "await_assertion"
    /\ \/ /\ hlog' = Resolved(hlog, "failed")
          /\ Catch("CredentialUnavailableError")
          /\ UNCHANGED hloc
       \/ \E tok \in MITokens :
             /\ hloc' = [hloc EXCEPT !.assertion = tok]
             /\ hlog' = Append(Resolved(hlog, tok), oboCall(hloc.authToken, tok))
             /\ hpc' = "await_obo"
             /\ UNCHANGED <<hret, logged>>
    /\ UNCHANGED <<call, dispVars>>

OboResume ==
    /\ hpc = "await_obo"
    /\ \/ /\ hlog' = Resolved(hlog, "failed")
          /\ Catch("AADSTS65001: consent required")
          /\ UNCHANGED hloc
       \/ \E tok \in OBOTokens :
             /\ hloc' = [hloc EXCEPT !.oboToken = tok]
             /\ hlog' = Append(Resolved(hlog, tok),
                               graphCall(hloc.authToken, hloc.assertion, tok))
             /\ hpc' = "await_graph"
             /\ UNCHANGED <<hret, logged>>
    /\ UNCHANGED <<call, dispVars>>

\* what lines 182-202 end in for a raw answer of the profile API; the HTTP
\* status is not inspected
graphOutcome(resp) ==
    IF resp.kind = "neterr" THEN "TypeError: fetch failed"
    ELSE IF ~resp.decodes THEN "SyntaxError: Unexpected token"
    ELSE "ok"

GraphResume ==
    /\ hpc = "await_graph"
    /\ \E resp \in GraphResponses :
          /\ hlog' = Resolved(hlog, IF resp.kind = "neterr" THEN "failed"
                                    ELSE IF resp.ok THEN "2xx" ELSE "non-2xx")
          /\ IF graphOutcome(resp) = "ok"
             THEN /\ hloc' = [hloc EXCEPT !.graphData = resp.value]
                  /\ Finish(userResult(resp.value))
                  /\ UNCHANGED logged
             ELSE /\ hloc' = hloc
                  /\ Catch(graphOutcome(resp))
    /\ UNCHANGED <<call, dispVars>>

ToolNext ==
    \/ ValidateInput
    \/ AlertsStart \/ AlertsResume
    \/ ForecastStart \/ PointsResume \/ ForecastResume
    \/ UserStart \/ AssertionResume \/ OboResume \/ GraphResume

ToolSpec == ToolInit /\ [][ToolNext]_vars

(***************************************************************************)
(* The dispatcher (Spec): the express routes on /mcp, lines 292-354.       *)
(*                                                                         *)
(* Node runs one macrotask at a time.  From the arrival of a POST to the   *)
(* first outbound call of the tool callback every await resolves in a      *)
(* microtask (transport.start, the hand-over of the parsed body), so that  *)
(* stretch is one action.  The callback then stays suspended on its        *)
(* outbound calls until HandlerDone.                                       *)
(*                                                                         *)
(* Each POST hands its req and res to the transport it has just created    *)
(* (line 314); that transport is the only object of the program that       *)
(* holds this res, and it writes the answer of the request to it.          *)
(***************************************************************************)
Reqs == 1..MaxReqs
RpcIds == {1, 2}

\* const server = createServer(), line 294: one instance per process
server == 1

\* a 405 route that answers with the dispatcher's internal-error body
methodNotAllowedAsInternal ==
    [status |-> 500,
     body |-> [jsonrpc |-> "2.0",
               error |-> [code |-> -32603, message |-> "Internal server error"],
               id |-> "null"]]

methodNotAllowed ==
    [status |-> 405,
     body |-> [jsonrpc |-> "2.0",
               error |-> [code |-> -32000, message |-> "Method not allowed."],
               id |-> "null"]]

internalServerError ==
    [status |-> 500,
     body |-> [jsonrpc |-> "2.0",
               error |-> [code |-> -32603, message |-> "Internal server error"],
               id |-> "null"]]

\* the JSON response the transport writes for the result of handler run r
toolResponse(id, r) ==
    [status |-> 200,
     body |-> [jsonrpc |-> "2.0", id |-> id, result |-> [run |-> r]]]

headersSent(r) == response[r].status # 0

Init ==
    /\ dispInitIdle
    /\ call = [tool |-> "none"]
    /\ hpc = "idle"
    /\ hlog = <<>>
    /\ hloc = NoLocals
    /\ hret = NoResult
    /\ logged = <<>>

\* the response the transport writes by itself for a body it cannot parse
transportError ==
    [status |-> 400,
     body |-> [jsonrpc |-> "2.0",
               error |-> [code |-> -32700, message |-> "Parse error"],
               id |-> "null"]]

\* a catch block that answers 500 whatever was sent before
catch500Always(res, r) == [res EXCEPT ![r] = internalServerError]

\* the catch block of lines 315-327, entered with the responses res
catch500(res, r) ==
    IF res[r].status # 0 THEN res ELSE [res EXCEPT ![r] = internalServerError]

\* the server instance a POST connects: the module-level one
serverFor(r) == server

\* app.post('/mcp'), lines 297-328, up to the callback's first suspension
PostMcp(r) ==
    /\ ~exited
    /\ pc[r] = "new"
    /\ \E id \in RpcIds,
          outcome \in {"ok", "ctorThrows", "connectThrows", "handleThrows",
                       "handleThrowsLate"} :
          /\ method' = [method EXCEPT ![r] = "POST"]
          /\ rpcId' = [rpcId EXCEPT ![r] = id]
          /\ IF outcome = "ctorThrows"
             THEN /\ response' = catch500(response, r)
                  /\ pc' = [pc EXCEPT ![r] = "failed"]
                  /\ closeEmitted' = closeEmitted \cup {r}
                  /\ UNCHANGED <<transportOf, registryOf, nextTransport,
                                 serverTransport, closeListener, handlerRuns>>
             ELSE /\ transportOf' = [transportOf EXCEPT ![r] = nextTransport]
                  /\ nextTransport' = nextTransport + 1
                  /\ closeListener' = closeListener \cup {r}
                  /\ IF outcome = "connectThrows"
                     THEN /\ response' = catch500(response, r)
                          /\ pc' = [pc EXCEPT ![r] = "failed"]
                          /\ closeEmitted' = closeEmitted \cup {r}
                          /\ UNCHANGED <<registryOf, serverTransport, handlerRuns>>
                     ELSE /\ registryOf' = [registryOf EXCEPT ![r] = serverFor(r)]
                          /\ serverTransport' = nextTransport
                          /\ IF outcome = "handleThrows"
                             THEN /\ response' = catch500(response, r)
                                  /\ pc' = [pc EXCEPT ![r] = "failed"]
                                  /\ closeEmitted' = closeEmitted \cup {r}
                                  /\ UNCHANGED handlerRuns
                             ELSE IF outcome = "handleThrowsLate"
                             \* handleRequest rejects after the transport has
                             \* written a response of its own
                             THEN /\ response' = catch500(
                                        [response EXCEPT ![r] = transportError], r)
                                  /\ pc' = [pc EXCEPT ![r] = "failedLate"]
                                  /\ closeEmitted' = closeEmitted \cup {r}
                                  /\ UNCHANGED handlerRuns
                             ELSE /\ handlerRuns' = [handlerRuns EXCEPT ![r] = @ + 1]
                                  /\ pc' = [pc EXCEPT ![r] = "running"]
                                  /\ UNCHANGED <<response, closeEmitted>>
    /\ UNCHANGED <<transportClosed, connOpen, exited, toolVars>>

\* the transport that was handed req and res of request r at line 314
answerVia(r) == transportOf[r]

\* the requests whose res transport t was handed and can still write to:
\* the transport is not closed, nothing was written to res, and the client
\* is still connected
pendingOn(t) ==
    {q \in Reqs : /\ transportOf[q] = t /\ t \notin transportClosed
                  /\ pc[q] = "running"
                  /\ ~headersSent(q) /\ connOpen[q]}

\* the callback of request r settled; its transport writes the result to the
\* res it holds, which ends the response
HandlerDone(r) ==
    /\ ~exited
    /\ pc[r] = "running"
    /\ LET targets == pendingOn(answerVia(r)) IN
         /\ response' = [q \in Reqs |-> IF q \in targets
                                        THEN toolResponse(rpcId[r], r)
                                        ELSE response[q]]
         /\ closeEmitted' = closeEmitted \cup targets
         /\ pc' = [pc EXCEPT ![r] = "settled"]
    /\ UNCHANGED <<method, rpcId, transportOf, registryOf, nextTransport,
                   serverTransport, transportClosed, closeListener, connOpen,
                   handlerRuns, exited, toolVars>>

\* the client drops the connection before a response was written
ClientAbort(r) ==
    /\ ~exited
    /\ pc[r] \in {"running", "settled"} /\ connOpen[r] /\ ~headersSent(r)
    /\ connOpen' = [connOpen EXCEPT ![r] = FALSE]
    /\ closeEmitted' = closeEmitted \cup {r}
    /\ UNCHANGED <<method, rpcId, pc, transportOf, registryOf, nextTransport,
                   serverTransport, transportClosed, closeListener, response,
                   handlerRuns, exited, toolVars>>

\* a listener that closes whatever transport the shared server holds
closeTargetOfServer(r) == IF serverTransport # 0 THEN serverTransport ELSE transportOf[r]

\* the transport the listener of lines 308-311 closes
closeTarget(r) == transportOf[r]

\* res emits 'close'; the listener, when registered, runs transport.close(),
\* whose onclose clears the _transport of the Protocol it was connected to
ResClose(r) ==
    /\ ~exited
    /\ r \in closeEmitted
    /\ closeEmitted' = closeEmitted \ {r}
    /\ IF r \in closeListener
       THEN /\ transportClosed' = transportClosed \cup {closeTarget(r)}
            /\ serverTransport' = IF registryOf[r] # 0 THEN 0 ELSE serverTransport
       ELSE UNCHANGED <<transportClosed, serverTransport>>
    /\ UNCHANGED <<method, rpcId, pc, transportOf, registryOf, nextTransport,
                   closeListener, connOpen, response, handlerRuns, exited,
                   toolVars>>

\* app.get('/mcp') and app.delete('/mcp'), lines 331-354
Reject405(r, verb) ==
    /\ ~exited
    /\ pc[r] = "new"
    /\ method' = [method EXCEPT ![r] = verb]
    /\ response' = [response EXCEPT ![r] = methodNotAllowed]
    /\ pc' = [pc EXCEPT ![r] = "rejected"]
    /\ closeEmitted' = closeEmitted \cup {r}
    /\ UNCHANGED <<rpcId, transportOf, registryOf, nextTransport, serverTransport,
                   transportClosed, closeListener, connOpen, handlerRuns,
                   exited, toolVars>>

GetMcp(r) == Reject405(r, "GET")

DeleteMcp(r) == Reject405(r, "DELETE")

\* process.on('SIGINT'), lines 377-381: server.close() closes the transport
\* the module-level server holds, without any 'close' event of a response,
\* and process.exit(0) ends the process: no pending response is written and
\* no listener runs any more
Sigint ==
    /\ ~exited
    /\ transportClosed' = IF serverTransport # 0
                          THEN transportClosed \cup {serverTransport}
                          ELSE transportClosed
    /\ serverTransport' = 0
    /\ exited' = TRUE
    /\ UNCHANGED <<method, rpcId, pc, transportOf, registryOf, nextTransport,
                   closeListener, closeEmitted, connOpen, response, handlerRuns,
                   toolVars>>

Next ==
    \/ \E r \in Reqs :
          \/ PostMcp(r)
          \/ HandlerDone(r)
          \/ ClientAbort(r)
          \/ ResClose(r)
          \/ GetMcp(r)
          \/ DeleteMcp(r)
    \/ Sigint

Spec == Init /\ [][Next]_vars

\* The event loop runs the listeners of every 'close' event that was emitted.
LiveSpec ==
    Spec /\ \A r \in Reqs : WF_vars(ResClose(r))

(***************************************************************************)
(* Claims about the dispatcher.                                            *)
(***************************************************************************)

\* C1: every POST gets its own McpServer instance and its own transport
\* instance; no instance is bound to two different requests.
C1_FreshInstancesPerRequest ==
    \A r, q \in Reqs :
        r # q =>
          /\ (registryOf[r] # 0 /\ registryOf[q] # 0 => registryOf[r] # registryOf[q])
          /\ (transportOf[r] # 0 /\ transportOf[q] # 0 => transportOf[r] # transportOf[q])

\* a request has ended: a response was written or the client went away
ended(r) == headersSent(r) \/ ~connOpen[r]

\* C3: the transport created for a POST is eventually closed once the
\* request has ended (response written, 500 written, or client gone), and a
\* step that closes a transport closes the transport of the request whose
\* 'close' event it handles.  An ended request stays ended and a closed
\* transport stays closed, so "closed some time after the end" is: from
\* some point on, the transport of every ended request is closed.  The
\* property is one of the running process: a shutdown ends it.
C3_TransportReleased ==
    /\ <>[](\/ exited
            \/ \A r \in Reqs :
                  ended(r) /\ transportOf[r] # 0 => transportOf[r] \in transportClosed)
    /\ [][/\ \A r \in Reqs : ended(r) => ended(r)'
          /\ transportClosed \subseteq transportClosed'
          /\ \A r \in closeEmitted \ closeEmitted' :
                transportClosed' \ transportClosed \subseteq {transportOf[r]}]_vars

\* C3 witness: one request ended by an abrupt close, another by a written
\* response, while both were in flight together; both transports are closed.
C3_Witness ==
    \E r, q \in Reqs :
        /\ r # q
        /\ ~connOpen[r] /\ ~headersSent(r) /\ transportOf[r] \in transportClosed
        /\ headersSent(q) /\ transportOf[q] # 0 /\ transportOf[q] \in transportClosed
        /\ transportOf[r] # transportOf[q]

\* C9: a GET or DELETE on /mcp is answered 405 with the fixed error body of
\* code -32000, and handling it constructs no transport, connects no server
\* and runs no tool handler.
C9_MethodNotAllowed ==
    /\ [](\A r \in Reqs :
            method[r] \in {"GET", "DELETE"} =>
              /\ response[r].status = 405
              /\ response[r].body.error.code = -32000
              /\ response[r].body.error.message = "Method not allowed."
              /\ response[r].body.id = "null"
              /\ transportOf[r] = 0 /\ registryOf[r] = 0 /\ handlerRuns[r] = 0)
    /\ [][\A r \in Reqs :
            method[r] = "none" /\ method'[r] \in {"GET", "DELETE"} =>
              UNCHANGED <<nextTransport, serverTransport, transportOf,
                          registryOf, handlerRuns, transportClosed>>]_vars

\* C9 witness: a GET was answered while a POST of another request is in
\* flight on its transport.
C9_Witness ==
    \E r, q \in Reqs :
        /\ method[r] = "GET" /\ headersSent(r)
        /\ method[q] = "POST" /\ pc[q] = "running" /\ serverTransport = transportOf[q]

(***************************************************************************)
(* Claims about the tool handlers (ToolSpec).                              *)
(***************************************************************************)
finished == hpc \in {"returned", "threw"}

isUserCall == call.tool = "get_current_user"

\* C4: get_current_user on a call without an authorization header, whether
\* or not other headers are present, returns exactly {authenticated: false,
\* message: "No authentication headers found"} and issues no outbound call.
C4_NoAuthorizationHeader ==
    (/\ isUserCall /\ finished
     /\ (headersMissing(call) \/ ~Has(call.headers, "authorization")))
    => /\ hret.kind = "envelope"
       /\ hret.structuredContent =
             [authenticated |-> FALSE,
              message |-> <<S("No authentication headers found")>>]
       /\ hlog = <<>>

\* C5: in every successful result the id and every phone number of the
\* profile are the marker "[MASKED]", the phone list keeps its length, and
\* every other field of the profile has the value the profile API returned;
\* the display text serialises the same object.
C5_ProfileMasked ==
    (isUserCall /\ hpc = "returned" /\ hret.structuredContent.authenticated)
    => LET user == hret.structuredContent.user
           raw == hloc.graphData
       IN /\ DOMAIN user = DOMAIN raw
          /\ \A f \in DOMAIN raw :
                IF f = "id" THEN user[f] = MASKED
                ELSE IF f = "businessPhones"
                THEN /\ Len(user[f]) = Len(raw[f])
                     /\ \A i \in DOMAIN user[f] : user[f][i] = MASKED
                ELSE user[f] = raw[f]
          /\ hret.content[1].text[1].json.user = user

\* C5 witness: a success whose profile carried an id and two phone numbers.
C5_Witness ==
    /\ isUserCall /\ hpc = "returned" /\ hret.structuredContent.authenticated
    /\ Has(hloc.graphData, "id") /\ Has(hloc.graphData, "businessPhones")
    /\ Len(hloc.graphData.businessPhones) = 2
    /\ hret.structuredContent.user.displayName = "Ada"

\* C6: every tool handler ends by returning an envelope, whatever its
\* outbound calls answered; no handler ends by throwing.
C6_NoExceptionEscapes ==
    finished => hret.kind = "envelope"

\* an exception was raised by the platform-token request, the On-Behalf-Of
\* request or the profile call (steps 2-4)
exchangeFailed ==
    /\ isUserCall /\ finished /\ hlog # <<>> /\ logged # <<>>

\* C7: when one of steps 2-4 raises, get_current_user returns an envelope
\* with authenticated = false whose message contains the consent link built
\* from the deployment hostname; the caught error is logged and is no part
\* of the envelope.
C7_ExchangeFailureResult ==
    exchangeFailed
    => /\ hret.kind = "envelope"
       /\ DOMAIN hret.structuredContent = {"authenticated", "message"}
       /\ hret.structuredContent.authenticated = FALSE
       /\ LET msg == hret.structuredContent.message
              host == call.env.WEBSITE_HOSTNAME
          IN /\ \E i \in 1..(Len(msg) - 4) :
                   /\ msg[i] = S("https://")
                   /\ msg[i + 1] = S(host)
                   /\ msg[i + 2] = S("/.auth/login/aad?post_login_redirect_uri=https://")
                   /\ msg[i + 3] = S(host)
                   /\ msg[i + 4] = S("/authcomplete")
             /\ \A i \in DOMAIN msg, k \in DOMAIN logged : msg[i] # S(logged[k])
       /\ hret.content[1].text = JSONstringify(hret.structuredContent, 2)
       /\ Len(logged) = 1

\* C7 witness: the On-Behalf-Of request was refused.
C7_Witness ==
    /\ exchangeFailed
    /\ hlog[Len(hlog)].op = "onBehalfOf.getToken"
    /\ logged = <<"AADSTS65001: consent required">>

\* C8: an On-Behalf-Of request carries the caller's bearer token as user
\* assertion and a platform token obtained earlier in the same call as
\* client assertion; a profile call comes after a successful On-Behalf-Of
\* request and carries that request's token, never the platform token or the
\* caller's token.
C8_CredentialChainOrdered ==
    isUserCall =>
      \A i \in DOMAIN hlog :
        /\ hlog[i].op = "onBehalfOf.getToken" =>
              /\ Has(call, "headers") /\ Has(call.headers, "authorization")
              /\ hlog[i].userAssertionToken = call.headers.authorization[2]
              /\ \E j \in 1..(i - 1) :
                    /\ hlog[j].op = "managedIdentity.getToken"
                    /\ hlog[j].result \in MITokens
                    /\ hlog[i].clientAssertion = hlog[j].result
        /\ hlog[i].op = "graph.fetch" =>
              /\ \E j \in 1..(i - 1) :
                    /\ hlog[j].op = "onBehalfOf.getToken"
                    /\ hlog[j].result \in OBOTokens
                    /\ hlog[i].Authorization = <<"Bearer", hlog[j].result>>
              /\ hlog[i].Authorization[2] \notin MITokens \cup {UserToken}
        /\ hlog[i].op \in {"managedIdentity.getToken", "onBehalfOf.getToken",
                           "graph.fetch"}
        /\ i > 1 => hlog[i - 1].op # hlog[i].op

\* C8 witness: the whole chain ran, up to the answer of the profile API.
C8_Witness ==
    /\ isUserCall /\ hpc = "returned" /\ Len(hlog) = 3
    /\ hlog[3].op = "graph.fetch" /\ hlog[3].result = "2xx"

\* C10: when the grid-point lookup of get-forecast gives no data, the
\* handler returns at once: the output names the requested latitude and
\* longitude and says that only US locations are supported, and the lookup
\* is the only outbound call of the run.
C10_GridPointShortCircuit ==
    (/\ call.tool = "get-forecast" /\ hlog # <<>> /\ hlog[1].result = "null")
    => /\ hpc = "returned"
       /\ Len(hlog) = 1
       /\ LET text == hret.structuredContent.forecast IN
            /\ \E i, j, k \in DOMAIN text :
                  /\ i < j /\ j < k
                  /\ text[i] = N(call.latitude)
                  /\ text[j] = N(call.longitude)
                  /\ text[k] = S(". This location may not be supported by the NWS API (only US locations are supported).")
            /\ hret.content[1].text[1].json.forecast = text

\* C10 witness: the lookup failed on an HTTP error status.
C10_Witness ==
    /\ call.tool = "get-forecast" /\ hpc = "returned"
    /\ hlog # <<>> /\ hlog[1].result = "null"
    /\ logged = <<"HTTP error! status">>

(***************************************************************************)
(* Claims C11-C20.                                                         *)
(***************************************************************************)

\* the alerts API answered 2xx with a decodable body that holds no feature
zeroAlerts ==
    /\ call.tool = "get-alerts" /\ hpc = "returned"
    /\ hloc.resp.kind = "http" /\ hloc.resp.ok /\ hloc.resp.decodes
    /\ (Has(hloc.resp.value, "features") => Len(hloc.resp.value.features) = 0)

\* the area code in capitals, written out for the codes of States
codeInCapitals ==
    IF call.state = <<"c", "a">> THEN <<"C", "A">>
    ELSE IF call.state = <<"ß", "x">> THEN <<"S", "S", "X">>
    ELSE call.state

noActiveAlerts == <<S("No active alerts for "), Cs(codeInCapitals)>>

\* C11 as stated: with zero features upstream the display text of get-alerts
\* is exactly "No active alerts for <CODE>" and the alerts field is the same
\* string.
C11_NoAlertsTextExact ==
    zeroAlerts
    => /\ hret.content[1].text = noActiveAlerts
       /\ hret.structuredContent.alerts = noActiveAlerts

\* C11 amended: with zero features upstream the alerts field of the
\* structured form is exactly "No active alerts for <CODE>", CODE being the
\* area code in capitals, and the display text is the JSON serialisation of
\* the structured form {alerts: "No active alerts for <CODE>"}.
C11_NoAlertsTextSerialised ==
    zeroAlerts
    => /\ hret.structuredContent = [alerts |-> noActiveAlerts]
       /\ hret.content[1].text = <<[json |-> [alerts |-> noActiveAlerts], indent |-> 0]>>

\* C11 witness: a lower-case code whose upstream answer has an empty list.
C11_Witness ==
    /\ zeroAlerts /\ call.state = <<"c", "a">>
    /\ Has(hloc.resp.value, "features")

\* makeNWSRequest was called and has returned to the handler
fetched == hloc.resp.kind # "none"

\* C12: makeNWSRequest never throws: it hands the decoded payload to the
\* handler when the upstream answers 2xx with a decodable body, and null
\* (after logging the cause) on a non-2xx status, a network failure or an
\* undecodable body.
C12_FetcherNeverThrows ==
    fetched
    => /\ hlog[Len(hlog)].result \in {"data", "null", "pending"}
       /\ IF hloc.resp.kind = "http" /\ hloc.resp.ok /\ hloc.resp.decodes
          THEN hloc.data = hloc.resp.value /\ ~IsNull(hloc.data)
          ELSE /\ hloc.data = Null
               /\ logged # <<>>
               /\ logged[Len(logged)] \in {"fetch failed", "HTTP error! status",
                                           "json decode failed"}

\* C12 witness: a non-2xx answer with a decodable body came back as null.
C12_Witness ==
    /\ fetched /\ hloc.resp.kind = "http" /\ ~hloc.resp.ok /\ hloc.resp.decodes
    /\ ~IsNull(hloc.resp.value) /\ IsNull(hloc.data) /\ hpc = "returned"

\* The value atoms of one rendered record, by their offset in its block of
\* 16 atoms, with the fallback the code gives each of them.
alertSlots ==
    {[f |-> "event", off |-> 2, d |-> "Unknown"],
     [f |-> "areaDesc", off |-> 5, d |-> "Unknown"],
     [f |-> "severity", off |-> 8, d |-> "Unknown"],
     [f |-> "status", off |-> 11, d |-> "Unknown"],
     [f |-> "headline", off |-> 14, d |-> "No headline"]}

periodSlots ==
    {[f |-> "name", off |-> 1, d |-> "Unknown"],
     [f |-> "temperature", off |-> 5, d |-> "Unknown"],
     [f |-> "temperatureUnit", off |-> 7, d |-> "F"],
     [f |-> "windSpeed", off |-> 10, d |-> "Unknown"],
     [f |-> "windDirection", off |-> 12, d |-> ""],
     [f |-> "shortForecast", off |-> 14, d |-> "No forecast available"]}

\* the records a returned listing has rendered, their slots, and the number
\* of atoms in front of the first block
rendered ==
    IF hpc = "returned" /\ call.tool = "get-alerts" /\ ~IsNull(hloc.data)
       /\ Has(hloc.data, "features") /\ Len(hloc.data.features) > 0
    THEN [recs |-> [i \in DOMAIN hloc.data.features |-> hloc.data.features[i].properties],
          slots |-> alertSlots, lead |-> 3]
    ELSE IF hpc = "returned" /\ call.tool = "get-forecast" /\ Len(hlog) = 2
            /\ ~IsNull(hloc.data) /\ Has(hloc.data, "properties")
            /\ Has(hloc.data.properties, "periods")
            /\ Len(hloc.data.properties.periods) > 0
    THEN [recs |-> hloc.data.properties.periods, slots |-> periodSlots, lead |-> 5]
    ELSE [recs |-> <<>>, slots |-> {}, lead |-> 0]

\* the atom of record i at offset off of its block
slotAtom(i, off) == hret.content[1].text[rendered.lead + (i - 1) * 17 + off]

\* C13 as stated: every absent optional field of an alert record or a
\* forecast period renders as the fixed placeholder "Unknown", never as an
\* empty value.
C13_AbsentRendersUnknown ==
    \A i \in DOMAIN rendered.recs : \A e \in rendered.slots :
        ~Has(rendered.recs[i], e.f) => slotAtom(i, e.off) = S("Unknown")

\* a get-forecast call with a latitude outside [-90, 90] or a longitude
\* outside [-180, 180] (in 1e-5 degree)
outOfRange ==
    /\ call.tool = "get-forecast"
    /\ \/ call.latitude < -9000000 \/ call.latitude > 9000000
       \/ call.longitude < -18000000 \/ call.longitude > 18000000

\* C14: a get-forecast call with an out-of-range latitude or longitude is
\* rejected by input validation: the handler never runs and no outbound
\* call is made; a call whose coordinates are in range is never rejected.
C14_OutOfRangeRejected ==
    /\ outOfRange => /\ hpc \in {"called", "rejected"}
                     /\ hlog = <<>>
                     /\ hret = NoResult
    /\ call.tool = "get-forecast" /\ ~outOfRange => hpc # "rejected"

\* C14 witness: a call was rejected for its longitude alone.
C14_Witness ==
    /\ hpc = "rejected" /\ call.tool = "get-forecast"
    /\ call.longitude = -18000001 /\ call.latitude = 9000000

\* C15: every result a handler returns has one text block and a structured
\* form, and the two agree: the text is either the string held in the data
\* field of the structured form or the JSON serialisation of the structured
\* form.
C15_TextMatchesStructured ==
    hpc = "returned"
    => /\ hret.kind = "envelope"
       /\ Len(hret.content) = 1
       /\ hret.content[1].type = "text"
       /\ LET text == hret.content[1].text
              sc == hret.structuredContent
          IN \/ text = <<[json |-> sc, indent |-> 0]>>
             \/ text = <<[json |-> sc, indent |-> 2]>>
             \/ Has(sc, "alerts") /\ text = sc.alerts
             \/ Has(sc, "forecast") /\ text = sc.forecast

\* C15 witness: a forecast listing was returned as the bare string, with
\* the same string in the structured form.
C15_Witness ==
    /\ hpc = "returned" /\ call.tool = "get-forecast"
    /\ hret.content[1].text = hret.structuredContent.forecast
    /\ hret.content[1].text[1] = S("Forecast for ")

\* the profile API call of a get_current_user call ended in an error: the
\* fetch rejected or the API answered with a non-success status
graphCallFailed ==
    /\ isUserCall /\ finished /\ Len(hlog) = 3
    /\ hlog[3].op = "graph.fetch"
    /\ hlog[3].result \in {"failed", "non-2xx"}

\* C18: a profile API call that ends in an error, a non-success HTTP status
\* included, never yields a result with authenticated = true: the result is
\* the remediation-link failure result.
C18_GraphErrorNotAuthenticated ==
    graphCallFailed
    => /\ hpc = "returned"
       /\ hret.structuredContent.authenticated = FALSE
       /\ hret = catchResult("", call.env)

\* an outbound step without its outcome
stepOf(entry) == [entry EXCEPT !.result = "pending"]

\* the result of the call says that it failed
failureResult ==
    /\ hpc = "returned"
    /\ CASE call.tool = "get-alerts" ->
              hret.structuredContent = [alerts |-> <<S("Failed to retrieve alerts data")>>]
         [] call.tool = "get-forecast" ->
              hret.structuredContent.forecast[1]
                 \in {S("Failed to retrieve grid point data for coordinates: "),
                      S("Failed to retrieve forecast data")}
         [] OTHER -> hret.structuredContent.authenticated = FALSE

\* C16: no outbound call is retried: within one tool call each outbound
\* step is issued at most once, and after the first failed step no further
\* outbound call is issued and the call returns a failure result.
C16_NoRetryFailureTerminal ==
    /\ \A i, j \in DOMAIN hlog : i # j => stepOf(hlog[i]) # stepOf(hlog[j])
    /\ \A i \in DOMAIN hlog :
          hlog[i].result \in {"null", "failed", "non-2xx"}
          => i = Len(hlog) /\ failureResult

\* the step at which a returned get-forecast call stopped, read off the
\* outbound calls and the last upstream answer
forecastStoppedAt ==
    IF Len(hlog) = 1
    THEN IF hlog[1].result = "null" THEN "gridPointAbsent"
         ELSE IF \/ ~Has(hloc.resp.value, "properties")
                 \/ ~Has(hloc.resp.value.properties, "forecast")
                 \/ hloc.resp.value.properties.forecast = ""
         THEN "forecastUrlMissing"
         ELSE "unexpected"
    ELSE IF hlog[2].result = "null" THEN "forecastAbsent"
    ELSE IF Has(hloc.resp.value, "properties")
            /\ Has(hloc.resp.value.properties, "periods")
            /\ Len(hloc.resp.value.properties.periods) > 0
    THEN "none"
    ELSE "noPeriods"

\* C19: in get-forecast the failing step determines the message one-to-one:
\* grid-point fetch absent, forecast URL missing, forecast fetch absent and
\* empty period list each give their own message, the chain stops at the
\* first such step, and an absent upstream is never reported with the
\* no-data message or the other way round.
C19_FailingStepNamesMessage ==
    call.tool = "get-forecast" /\ hpc = "returned"
    => LET msg == hret.structuredContent.forecast[1]
           at == forecastStoppedAt
       IN /\ (at = "gridPointAbsent")
               <=> (msg = S("Failed to retrieve grid point data for coordinates: "))
          /\ (at = "forecastUrlMissing")
               <=> (msg = S("Failed to get forecast URL from grid point data"))
          /\ (at = "forecastAbsent") <=> (msg = S("Failed to retrieve forecast data"))
          /\ (at = "noPeriods") <=> (msg = S("No forecast periods available"))
          /\ (at = "none") <=> (msg = S("Forecast for "))
          /\ Len(hlog) \in {1, 2}
          /\ (Len(hlog) = 2 => hlog[1].result = "data"
                               /\ hlog[2].url = <<S(ForecastUrl)>>)

\* C19 witness: the grid-point lookup succeeded and the forecast fetch came
\* back absent.
C19_Witness ==
    /\ call.tool = "get-forecast" /\ hpc = "returned"
    /\ forecastStoppedAt = "forecastAbsent"
    /\ hret.structuredContent.forecast = <<S("Failed to retrieve forecast data")>>

(***************************************************************************)
(* Claims about the dispatcher, continued.                                 *)
(***************************************************************************)

\* C20: when constructing the transport, connecting the server or handling
\* the request throws, the caller receives status 500 with the JSON-RPC
\* error -32603 "Internal server error" exactly when no response headers
\* were sent yet; when headers were already sent the response stays as it
\* was written, and no step ever changes a response once it was written.
C20_InternalErrorOnce ==
    /\ [](\A r \in Reqs :
            /\ pc[r] = "failed"
                 => /\ response[r].status = 500
                    /\ response[r].body.error = [code |-> -32603,
                                                 message |-> "Internal server error"]
            /\ pc[r] = "failedLate" => response[r] = transportError
            /\ response[r].status = 500 => pc[r] = "failed")
    /\ [][\A r \in Reqs : headersSent(r) => response'[r] = response[r]]_vars

\* C20 witness: one POST failed before any header was sent and got the 500,
\* another failed after the transport had answered and kept that answer.
C20_Witness ==
    \E r, q \in Reqs :
        /\ pc[r] = "failed" /\ response[r] = internalServerError
        /\ pc[q] = "failedLate" /\ response[q].status = 400

====
